---- MODULE Spec2Model ----
(***************************************************************************)
(* A model of the allen-interval-relations crate: endpoint values, bounds, *)
(* the endpoint comparisons, the atomic relations of a pair of ranges or   *)
(* intervals, the classifier Relation::from(AtomicRelations), the order    *)
(* and the converse of Relation, and the NonEmpty wrapper.                 *)
(*                                                                         *)
(* The crate is a set of pure functions.  Init draws the arguments of the  *)
(* functions and the actions apply the functions, storing what they        *)
(* return.                                                                 *)
(***************************************************************************)
EXTENDS Integers, Sequences, FiniteSets, TLC

VARIABLES
    d,          \* ranges: the discreteness marker D of the call
    s,          \* ranges: the first range
    t,          \* ranges: the second range
    atomics,    \* ranges: what AtomicRelations::from_ranges(s, t) returned
    rel,        \* ranges: what Relation::from_ranges(s, t) returned
    relSwap,    \* ranges: what Relation::from_ranges(t, s) returned
    conv,       \* ranges: what rel.as_converse() returned
    r1,         \* relations: a Relation value
    r2,         \* relations: a Relation value
    ord,        \* relations: what r1.cmp(&r2) returned
    conv1,      \* relations: what r1.as_converse() returned
    conv2,      \* relations: what r1.as_converse().as_converse() returned
    si,         \* intervals: the first interval
    ti,         \* intervals: the second interval
    ns,         \* intervals: the result of converting si to NonEmpty
    nt,         \* intervals: the result of converting ti to NonEmpty
    irel,       \* intervals: what Relation::from_intervals(&ns, &nt) returned
    vs,         \* ranges: what validate_interval(&s) returned
    vt,         \* ranges: what validate_interval(&t) returned
    cb,         \* intervals: what Bb/Be/Eb/Ee::from_bounds returned
    ct,         \* intervals: what Bb/Be/Eb/Ee::try_from_bounds returned
    atomicsA,   \* ranges: what the per-type FromRanges impl of AtomicRelations returned
    evaluated,  \* ranges: how many of its comparisons that call evaluated
    sugar,      \* intervals: the predicates of ns against nt that returned true
    rsugar,     \* ranges: the RangeRelations methods that returned true for (s, t)
    esugar,     \* ranges: the RangeBoundsExt methods that returned true for (s, t)
    tup,        \* tuples: an AtomicRelations value
    trel        \* tuples: what Relation::from(tup) returned

vars == <<d, s, t, atomics, rel, relSwap, conv, r1, r2, ord, conv1, conv2,
          si, ti, ns, nt, irel,
          vs, vt,
          cb, ct,
          atomicsA, evaluated,
          sugar,
          rsugar,
          esugar,
          tup, trel>>

rangeVars == <<d, s, t, atomics, rel, relSwap, conv>>
relationVars == <<r1, r2, ord, conv1, conv2>>
intervalVars == <<si, ti, ns, nt, irel>>
validatorVars == <<vs, vt>>
boundVars == <<cb, ct>>
sentinelVars == <<atomicsA, evaluated>>
sugarVars == <<sugar>>
rangeSugarVars == <<rsugar>>
extVars == <<esugar>>
tupleVars == <<tup, trel>>

(***************************************************************************)
(* Endpoint values.  T is a type with a least and a greatest value, as     *)
(* `Bounded` requires, and a value that compares with nothing (a float's   *)
(* NaN).                                                                   *)
(***************************************************************************)
MinValue == 0
MaxValue == 8
NaN == MinValue - 1
Nil == MinValue - 2

Ordered == MinValue..MaxValue
Values == Ordered \cup {NaN}

min_value == MinValue
max_value == MaxValue

\* T::partial_cmp: None when either operand is NaN.
partial_cmp(a, b) ==
    IF a = NaN \/ b = NaN THEN "None"
    ELSE IF a < b THEN "Less"
    ELSE IF a = b THEN "Equal"
    ELSE "Greater"

Orderings == {"Less", "Equal", "Greater"}

\* PartialOrd::le, the `<=` of the assertions: false when there is no order.
le(o) == o \in {"Less", "Equal"}

(***************************************************************************)
(* Bound<T>.                                                               *)
(***************************************************************************)
Bounded(v) == [tag |-> "Bounded", value |-> v]
Unbounded == [tag |-> "Unbounded", value |-> Nil]

(***************************************************************************)
(* Rust's ranges and their bounds under a discreteness marker.             *)
(***************************************************************************)
RangeFull == [kind |-> "RangeFull", start |-> Nil, end |-> Nil]
RangeFrom(a) == [kind |-> "RangeFrom", start |-> a, end |-> Nil]
RangeTo(b) == [kind |-> "RangeTo", start |-> Nil, end |-> b]
RangeToInclusive(b) == [kind |-> "RangeToInclusive", start |-> Nil, end |-> b]
Range(a, b) == [kind |-> "Range", start |-> a, end |-> b]
RangeInclusive(a, b) == [kind |-> "RangeInclusive", start |-> a, end |-> b]

Discreteness == {"Discrete", "NonDiscrete"}

\* The range types that implement RangeBounds<T, D>.
RangesOf(D) ==
    {RangeFull}
    \cup {RangeFrom(a) : a \in Values}
    \cup (IF D = "Discrete"
          THEN {RangeTo(b) : b \in Values}
               \cup {Range(a, b) : a \in Values, b \in Values}
          ELSE {RangeToInclusive(b) : b \in Values}
               \cup {RangeInclusive(a, b) : a \in Values, b \in Values})

start_bound(r) ==
    IF r.kind \in {"RangeFrom", "Range", "RangeInclusive"}
    THEN Bounded(r.start)
    ELSE Unbounded

\* Mutant: the end of a..=b and of ..=b taken as the exclusive end one past
\* it.
end_bound_one_past(r) ==
    IF r.kind \in {"RangeTo", "Range"} THEN Bounded(r.end)
    ELSE IF r.kind \in {"RangeToInclusive", "RangeInclusive"}
    THEN Bounded(IF r.end = NaN THEN NaN ELSE r.end + 1)
    ELSE Unbounded

end_bound(r) ==
    IF r.kind \in {"RangeTo", "RangeToInclusive", "Range", "RangeInclusive"}
    THEN Bounded(r.end)
    ELSE Unbounded

(***************************************************************************)
(* The comparisons of StartBound and EndBound: an unbounded start is       *)
(* T::min_value(), an unbounded end is T::max_value().                     *)
(***************************************************************************)
EndBound_partial_cmp_EndBound(x, y) ==
    IF x.tag = "Bounded" /\ y.tag = "Bounded" THEN partial_cmp(x.value, y.value)
    ELSE IF x.tag = "Bounded" THEN partial_cmp(x.value, max_value)
    ELSE IF y.tag = "Bounded" THEN partial_cmp(max_value, y.value)
    ELSE "Equal"

\* Mutant: the operands of the bounded comparison the wrong way round.
EndBound_partial_cmp_StartBound_reversed(x, y) ==
    IF x.tag = "Bounded" /\ y.tag = "Bounded" THEN partial_cmp(y.value, x.value)
    ELSE IF x.tag = "Bounded" THEN partial_cmp(x.value, min_value)
    ELSE IF y.tag = "Bounded" THEN partial_cmp(max_value, y.value)
    ELSE "Greater"

\* Mutant: the arm for two unbounded sides taken from StartBound vs EndBound.
EndBound_partial_cmp_StartBound_unbounded_less(x, y) ==
    IF x.tag = "Bounded" /\ y.tag = "Bounded" THEN partial_cmp(x.value, y.value)
    ELSE IF x.tag = "Bounded" THEN partial_cmp(x.value, min_value)
    ELSE IF y.tag = "Bounded" THEN partial_cmp(max_value, y.value)
    ELSE "Less"

EndBound_partial_cmp_StartBound(x, y) ==
    IF x.tag = "Bounded" /\ y.tag = "Bounded" THEN partial_cmp(x.value, y.value)
    ELSE IF x.tag = "Bounded" THEN partial_cmp(x.value, min_value)
    ELSE IF y.tag = "Bounded" THEN partial_cmp(max_value, y.value)
    ELSE "Greater"

StartBound_partial_cmp_StartBound(x, y) ==
    IF x.tag = "Bounded" /\ y.tag = "Bounded" THEN partial_cmp(x.value, y.value)
    ELSE IF x.tag = "Bounded" THEN partial_cmp(x.value, min_value)
    ELSE IF y.tag = "Bounded" THEN partial_cmp(min_value, y.value)
    ELSE "Equal"

StartBound_partial_cmp_EndBound(x, y) ==
    IF x.tag = "Bounded" /\ y.tag = "Bounded" THEN partial_cmp(x.value, y.value)
    ELSE IF x.tag = "Bounded" THEN partial_cmp(x.value, max_value)
    ELSE IF y.tag = "Bounded" THEN partial_cmp(min_value, y.value)
    ELSE "Less"

(***************************************************************************)
(* AtomicRelations.                                                        *)
(***************************************************************************)
SomeAtomics(bb, be, eb, ee) ==
    [tag |-> "Some", bb |-> bb, be |-> be, eb |-> eb, ee |-> ee]
NoAtomics(tag) ==
    [tag |-> tag, bb |-> "None", be |-> "None", eb |-> "None", ee |-> "None"]

\* AtomicRelations::from_ranges: the two assertions, then the four
\* comparisons, each `?` returning None at once.
AtomicRelations_from_ranges(x, y) ==
    LET sb == start_bound(x)
        se == end_bound(x)
        tb == start_bound(y)
        te == end_bound(y)
        bb == StartBound_partial_cmp_StartBound(sb, tb)
        be == StartBound_partial_cmp_EndBound(sb, te)
        eb == EndBound_partial_cmp_StartBound(se, tb)
        ee == EndBound_partial_cmp_EndBound(se, te)
    IN  IF ~le(StartBound_partial_cmp_EndBound(sb, se)) THEN NoAtomics("Panic")
        ELSE IF ~le(StartBound_partial_cmp_EndBound(tb, te)) THEN NoAtomics("Panic")
        ELSE IF bb = "None" THEN NoAtomics("None")
        ELSE IF be = "None" THEN NoAtomics("None")
        ELSE IF eb = "None" THEN NoAtomics("None")
        ELSE IF ee = "None" THEN NoAtomics("None")
        ELSE SomeAtomics(bb, be, eb, ee)

(***************************************************************************)
(* AtomicRelations of atomic_relations.rs: one FromRanges impl per pair of *)
(* range types, each comparing the endpoints with T::min_value() in place  *)
(* of a missing start and T::max_value() in place of a missing end.        *)
(***************************************************************************)
\* Mutant: T::max_value() in place of a missing start.
start_or_max_value(r) == IF start_bound(r).tag = "Bounded" THEN r.start ELSE max_value

start_or_min(r) == IF start_bound(r).tag = "Bounded" THEN r.start ELSE min_value
end_or_max(r) == IF end_bound(r).tag = "Bounded" THEN r.end ELSE max_value

\* Mutant: the comparisons made in the order ee, eb, be, bb.
FromRanges_comparisons_reversed(x, y) ==
    <<partial_cmp(end_or_max(x), end_or_max(y)),
      partial_cmp(end_or_max(x), start_or_min(y)),
      partial_cmp(start_or_min(x), end_or_max(y)),
      partial_cmp(start_or_min(x), start_or_min(y))>>

\* The `let` lines of an impl, in their order: bb, be, eb, ee.
FromRanges_comparisons(x, y) ==
    <<partial_cmp(start_or_min(x), start_or_min(y)),
      partial_cmp(start_or_min(x), end_or_max(y)),
      partial_cmp(end_or_max(x), start_or_min(y)),
      partial_cmp(end_or_max(x), end_or_max(y))>>

BothFull(x, y) == x.kind = "RangeFull" /\ y.kind = "RangeFull"

\* How many comparisons run: each `?` returns at the first None.  The impl
\* for (RangeFull, RangeFull) makes none.
FromRanges_evaluated(x, y) ==
    LET c == FromRanges_comparisons(x, y)
    IN  IF BothFull(x, y) THEN 0
        ELSE IF \E i \in 1..4 : c[i] = "None"
        THEN CHOOSE i \in 1..4 : c[i] = "None" /\ \A j \in 1..(i - 1) : c[j] # "None"
        ELSE 4

\* <AtomicRelations as FromRanges<S, T>>::from_ranges
FromRanges_from_ranges(x, y) ==
    LET c == FromRanges_comparisons(x, y)
    IN  IF BothFull(x, y) THEN SomeAtomics("Equal", "Less", "Greater", "Equal")
        ELSE IF FromRanges_evaluated(x, y) < 4 \/ c[4] = "None" THEN NoAtomics("None")
        ELSE SomeAtomics(c[1], c[2], c[3], c[4])

(***************************************************************************)
(* Relation.                                                               *)
(***************************************************************************)
\* Mutant: Contains and Starts declared the other way round.
RelationSeq_swapped ==
    <<"Precedes", "Meets", "Overlaps", "IsFinishedBy", "Starts", "Contains",
      "Equals", "IsStartedBy", "IsContainedBy", "Finishes", "IsOverlappedBy",
      "IsMetBy", "IsPrecededBy">>

\* The variants in the order of their declaration, which is their `u8`.
RelationSeq ==
    <<"Precedes", "Meets", "Overlaps", "IsFinishedBy", "Contains", "Starts",
      "Equals", "IsStartedBy", "IsContainedBy", "Finishes", "IsOverlappedBy",
      "IsMetBy", "IsPrecededBy">>

Relations == {RelationSeq[i] : i \in DOMAIN RelationSeq}

\* `*self as u8`
as_u8(r) == (CHOOSE i \in DOMAIN RelationSeq : RelationSeq[i] = r) - 1

\* Ord::cmp for Relation
Relation_cmp(a, b) ==
    IF as_u8(a) < as_u8(b) THEN "Less"
    ELSE IF as_u8(a) = as_u8(b) THEN "Equal"
    ELSE "Greater"

\* Mutant: the Starts arm moved to the top of the match.
Relation_from_StartsFirst(a) ==
    IF a.bb = "Equal" /\ a.ee = "Less" THEN "Starts"
    ELSE IF a.eb = "Less" THEN "Precedes"
    ELSE IF a.be = "Greater" THEN "IsPrecededBy"
    ELSE IF a.eb = "Equal" THEN "Meets"
    ELSE IF a.be = "Equal" THEN "IsMetBy"
    ELSE IF a.bb = "Greater" /\ a.ee = "Equal" THEN "Finishes"
    ELSE IF a.bb = "Less" /\ a.ee = "Equal" THEN "IsFinishedBy"
    ELSE IF a.bb = "Equal" /\ a.ee = "Greater" THEN "IsStartedBy"
    ELSE IF a.bb = "Less" /\ a.ee = "Greater" THEN "Contains"
    ELSE IF a.bb = "Greater" /\ a.ee = "Less" THEN "IsContainedBy"
    ELSE IF a.bb = "Equal" /\ a.ee = "Equal" THEN "Equals"
    ELSE IF a.bb = "Less" /\ a.eb = "Greater" /\ a.ee = "Less" THEN "Overlaps"
    ELSE IF a.bb = "Greater" /\ a.be = "Less" /\ a.ee = "Greater" THEN "IsOverlappedBy"
    ELSE "Unmatched"

\* Mutant: the match without its last arm.
Relation_from_without_last_arm(a) ==
    IF a.eb = "Less" THEN "Precedes"
    ELSE IF a.be = "Greater" THEN "IsPrecededBy"
    ELSE IF a.eb = "Equal" THEN "Meets"
    ELSE IF a.be = "Equal" THEN "IsMetBy"
    ELSE IF a.bb = "Greater" /\ a.ee = "Equal" THEN "Finishes"
    ELSE IF a.bb = "Less" /\ a.ee = "Equal" THEN "IsFinishedBy"
    ELSE IF a.bb = "Equal" /\ a.ee = "Less" THEN "Starts"
    ELSE IF a.bb = "Equal" /\ a.ee = "Greater" THEN "IsStartedBy"
    ELSE IF a.bb = "Less" /\ a.ee = "Greater" THEN "Contains"
    ELSE IF a.bb = "Greater" /\ a.ee = "Less" THEN "IsContainedBy"
    ELSE IF a.bb = "Equal" /\ a.ee = "Equal" THEN "Equals"
    ELSE IF a.bb = "Less" /\ a.eb = "Greater" /\ a.ee = "Less" THEN "Overlaps"
    ELSE "Unmatched"

\* impl From<AtomicRelations> for Relation: the arms of the match, in order.
Relation_from(a) ==
    IF a.eb = "Less" THEN "Precedes"
    ELSE IF a.be = "Greater" THEN "IsPrecededBy"
    ELSE IF a.eb = "Equal" THEN "Meets"
    ELSE IF a.be = "Equal" THEN "IsMetBy"
    ELSE IF a.bb = "Greater" /\ a.ee = "Equal" THEN "Finishes"
    ELSE IF a.bb = "Less" /\ a.ee = "Equal" THEN "IsFinishedBy"
    ELSE IF a.bb = "Equal" /\ a.ee = "Less" THEN "Starts"
    ELSE IF a.bb = "Equal" /\ a.ee = "Greater" THEN "IsStartedBy"
    ELSE IF a.bb = "Less" /\ a.ee = "Greater" THEN "Contains"
    ELSE IF a.bb = "Greater" /\ a.ee = "Less" THEN "IsContainedBy"
    ELSE IF a.bb = "Equal" /\ a.ee = "Equal" THEN "Equals"
    ELSE IF a.bb = "Less" /\ a.eb = "Greater" /\ a.ee = "Less" THEN "Overlaps"
    ELSE IF a.bb = "Greater" /\ a.be = "Less" /\ a.ee = "Greater" THEN "IsOverlappedBy"
    ELSE "Unmatched"

\* Relation::from_ranges: AtomicRelations::from_ranges(s, t).map(Relation::from)
Relation_from_ranges(x, y) ==
    LET a == AtomicRelations_from_ranges(x, y)
    IN  IF a.tag = "Some" THEN Relation_from(a) ELSE a.tag

\* Mutant: Finishes taken for its own converse.
as_converse_finishes_fixed(r) ==
    CASE r = "Precedes" -> "IsPrecededBy"
      [] r = "Meets" -> "IsMetBy"
      [] r = "Overlaps" -> "IsOverlappedBy"
      [] r = "IsFinishedBy" -> "Finishes"
      [] r = "Contains" -> "IsContainedBy"
      [] r = "Starts" -> "IsStartedBy"
      [] r = "Equals" -> "Equals"
      [] r = "IsStartedBy" -> "Starts"
      [] r = "IsContainedBy" -> "Contains"
      [] r = "Finishes" -> "Finishes"
      [] r = "IsOverlappedBy" -> "Overlaps"
      [] r = "IsMetBy" -> "Meets"
      [] r = "IsPrecededBy" -> "Precedes"

\* Mutant: the Starts and the Contains families paired with each other.
as_converse_crossed(r) ==
    CASE r = "Precedes" -> "IsPrecededBy"
      [] r = "Meets" -> "IsMetBy"
      [] r = "Overlaps" -> "IsOverlappedBy"
      [] r = "IsFinishedBy" -> "Finishes"
      [] r = "Contains" -> "IsStartedBy"
      [] r = "Starts" -> "IsContainedBy"
      [] r = "Equals" -> "Equals"
      [] r = "IsStartedBy" -> "Contains"
      [] r = "IsContainedBy" -> "Starts"
      [] r = "Finishes" -> "IsFinishedBy"
      [] r = "IsOverlappedBy" -> "Overlaps"
      [] r = "IsMetBy" -> "Meets"
      [] r = "IsPrecededBy" -> "Precedes"

\* Relation::as_converse
as_converse(r) ==
    CASE r = "Precedes" -> "IsPrecededBy"
      [] r = "Meets" -> "IsMetBy"
      [] r = "Overlaps" -> "IsOverlappedBy"
      [] r = "IsFinishedBy" -> "Finishes"
      [] r = "Contains" -> "IsContainedBy"
      [] r = "Starts" -> "IsStartedBy"
      [] r = "Equals" -> "Equals"
      [] r = "IsStartedBy" -> "Starts"
      [] r = "IsContainedBy" -> "Contains"
      [] r = "Finishes" -> "IsFinishedBy"
      [] r = "IsOverlappedBy" -> "Overlaps"
      [] r = "IsMetBy" -> "Meets"
      [] r = "IsPrecededBy" -> "Precedes"

(***************************************************************************)
(* Intervals, their bounds, and the NonEmpty wrapper.                      *)
(***************************************************************************)
Interval(a, b) == [kind |-> "Interval", start |-> a, end |-> b]
IntervalFrom(a) == [kind |-> "IntervalFrom", start |-> a, end |-> Nil]
IntervalTo(b) == [kind |-> "IntervalTo", start |-> Nil, end |-> b]
IntervalFull == [kind |-> "IntervalFull", start |-> Nil, end |-> Nil]

Intervals ==
    {IntervalFull}
    \cup {IntervalFrom(a) : a \in Values}
    \cup {IntervalTo(b) : b \in Values}
    \cup {Interval(a, b) : a \in Values, b \in Values}

\* IntervalBounds::start_bound
Interval_start_bound(i) ==
    IF i.kind \in {"Interval", "IntervalFrom"} THEN Bounded(i.start) ELSE Unbounded

\* IntervalBounds::end_bound
Interval_end_bound(i) ==
    IF i.kind \in {"Interval", "IntervalTo"} THEN Bounded(i.end) ELSE Unbounded

Absent == [kind |-> "Absent", start |-> Nil, end |-> Nil]

Ok(v) == [tag |-> "Ok", value |-> v]
Err(e) == [tag |-> e, value |-> Absent]

\* Mutant: an interval of one point accepted (the closed reading).
NonEmpty_try_from_closed(i) ==
    LET o == partial_cmp(i.start, i.end)
    IN  IF o = "Less" THEN Ok(i)
        ELSE IF o = "Equal" THEN Ok(i)
        ELSE IF o = "Greater" THEN Err("EmptyInterval")
        ELSE Err("AmbiguousOrder")

\* impl TryFrom<Interval<T>> for NonEmpty<Interval<T>>
NonEmpty_try_from(i) ==
    LET o == partial_cmp(i.start, i.end)
    IN  IF o = "Less" THEN Ok(i)
        ELSE IF o = "Equal" THEN Err("EmptyInterval")
        ELSE IF o = "Greater" THEN Err("EmptyInterval")
        ELSE Err("AmbiguousOrder")

\* impl From<IntervalTo<T>>, From<IntervalFrom<T>>, From<IntervalFull>
NonEmpty_from(i) == Ok(i)

\* `.try_into()` on an interval of any of the four kinds
try_into_NonEmpty(i) ==
    IF i.kind = "Interval" THEN NonEmpty_try_from(i) ELSE NonEmpty_from(i)

(***************************************************************************)
(* The comparators Bb, Be, Eb, Ee of two Bound values: an unbounded side   *)
(* is the extreme of its role.                                             *)
(***************************************************************************)
\* T::cmp of a totally ordered T.
cmp(a, b) == IF a < b THEN "Less" ELSE IF a = b THEN "Equal" ELSE "Greater"

\* Mutant: an unbounded start is T::min_value().
Bb_from_bounds_sentinel(x, y) ==
    IF x.tag = "Bounded" /\ y.tag = "Bounded" THEN cmp(x.value, y.value)
    ELSE IF x.tag = "Bounded" THEN cmp(x.value, min_value)
    ELSE IF y.tag = "Bounded" THEN cmp(min_value, y.value)
    ELSE "Equal"

\* Bb::from_bounds
Bb_from_bounds(x, y) ==
    IF x.tag = "Bounded" /\ y.tag = "Bounded" THEN cmp(x.value, y.value)
    ELSE IF x.tag = "Bounded" THEN "Greater"
    ELSE IF y.tag = "Bounded" THEN "Less"
    ELSE "Equal"

\* Mutant: an unbounded end is T::max_value().
Be_from_bounds_sentinel(x, y) ==
    IF x.tag = "Bounded" /\ y.tag = "Bounded" THEN cmp(x.value, y.value)
    ELSE IF x.tag = "Bounded" THEN cmp(x.value, max_value)
    ELSE IF y.tag = "Bounded" THEN cmp(min_value, y.value)
    ELSE "Less"

\* Be::from_bounds
Be_from_bounds(x, y) ==
    IF x.tag = "Bounded" /\ y.tag = "Bounded" THEN cmp(x.value, y.value)
    ELSE IF x.tag = "Bounded" THEN "Less"
    ELSE IF y.tag = "Bounded" THEN "Less"
    ELSE "Less"

\* Eb::from_bounds
Eb_from_bounds(x, y) ==
    IF x.tag = "Bounded" /\ y.tag = "Bounded" THEN cmp(x.value, y.value)
    ELSE IF x.tag = "Bounded" THEN "Greater"
    ELSE IF y.tag = "Bounded" THEN "Greater"
    ELSE "Greater"

\* Ee::from_bounds
Ee_from_bounds(x, y) ==
    IF x.tag = "Bounded" /\ y.tag = "Bounded" THEN cmp(x.value, y.value)
    ELSE IF x.tag = "Bounded" THEN "Less"
    ELSE IF y.tag = "Bounded" THEN "Greater"
    ELSE "Equal"

AmbiguousOrder == "AmbiguousOrder"

try_cmp(x, y) ==
    IF partial_cmp(x.value, y.value) = "None" THEN AmbiguousOrder
    ELSE partial_cmp(x.value, y.value)

Bb_try_from_bounds(x, y) ==
    IF x.tag = "Bounded" /\ y.tag = "Bounded" THEN try_cmp(x, y)
    ELSE IF x.tag = "Bounded" THEN "Greater"
    ELSE IF y.tag = "Bounded" THEN "Less"
    ELSE "Equal"

Be_try_from_bounds(x, y) ==
    IF x.tag = "Bounded" /\ y.tag = "Bounded" THEN try_cmp(x, y)
    ELSE IF x.tag = "Bounded" THEN "Less"
    ELSE IF y.tag = "Bounded" THEN "Less"
    ELSE "Less"

Eb_try_from_bounds(x, y) ==
    IF x.tag = "Bounded" /\ y.tag = "Bounded" THEN try_cmp(x, y)
    ELSE IF x.tag = "Bounded" THEN "Greater"
    ELSE IF y.tag = "Bounded" THEN "Greater"
    ELSE "Greater"

\* Mutant: an unbounded end compared through T::max_value().
Ee_try_from_bounds_sentinel(x, y) ==
    LET a == IF x.tag = "Bounded" THEN x.value ELSE max_value
        b == IF y.tag = "Bounded" THEN y.value ELSE max_value
    IN  IF partial_cmp(a, b) = "None" THEN AmbiguousOrder
        ELSE IF x.tag = "Bounded" /\ y.tag = "Bounded" THEN partial_cmp(a, b)
        ELSE IF x.tag = "Bounded" THEN "Less"
        ELSE IF y.tag = "Bounded" THEN "Greater"
        ELSE "Equal"

Ee_try_from_bounds(x, y) ==
    IF x.tag = "Bounded" /\ y.tag = "Bounded" THEN try_cmp(x, y)
    ELSE IF x.tag = "Bounded" THEN "Less"
    ELSE IF y.tag = "Bounded" THEN "Greater"
    ELSE "Equal"

\* Relation::try_from_intervals(&s, &t) on two NonEmpty intervals: the four
\* comparators of the bounds, failing at the first undefined one, then the
\* classifier.
Relation_try_from_intervals(x, y) ==
    LET bb == Bb_try_from_bounds(Interval_start_bound(x), Interval_start_bound(y))
        be == Be_try_from_bounds(Interval_start_bound(x), Interval_end_bound(y))
        eb == Eb_try_from_bounds(Interval_end_bound(x), Interval_start_bound(y))
        ee == Ee_try_from_bounds(Interval_end_bound(x), Interval_end_bound(y))
    IN  IF AmbiguousOrder \in {bb, be, eb, ee} THEN AmbiguousOrder
        ELSE Relation_from(SomeAtomics(bb, be, eb, ee))

\* The four comparators applied to the bounds of an interval pair.
FourFromBounds(x, y) ==
    SomeAtomics(Bb_from_bounds(Interval_start_bound(x), Interval_start_bound(y)),
                Be_from_bounds(Interval_start_bound(x), Interval_end_bound(y)),
                Eb_from_bounds(Interval_end_bound(x), Interval_start_bound(y)),
                Ee_from_bounds(Interval_end_bound(x), Interval_end_bound(y)))

FourTryFromBounds(x, y) ==
    SomeAtomics(Bb_try_from_bounds(Interval_start_bound(x), Interval_start_bound(y)),
                Be_try_from_bounds(Interval_start_bound(x), Interval_end_bound(y)),
                Eb_try_from_bounds(Interval_end_bound(x), Interval_start_bound(y)),
                Ee_try_from_bounds(Interval_end_bound(x), Interval_end_bound(y)))

\* The endpoints of an interval are values of a type that is Ord.
IsOrd(i) ==
    /\ i.kind \in {"Interval", "IntervalFrom"} => i.start \in Ordered
    /\ i.kind \in {"Interval", "IntervalTo"} => i.end \in Ordered

(***************************************************************************)
(* The predicate traits Precedes, Meets, Overlaps, Starts, Contains,       *)
(* Finishes, Equals and their impls for each pair of NonEmpty interval     *)
(* types.  A trait method that an impl leaves out is the default of the    *)
(* trait, which returns false.                                             *)
(***************************************************************************)
\* PartialOrd::lt, PartialOrd::gt and PartialEq::eq of T.
lt(a, b) == partial_cmp(a, b) = "Less"
gt(a, b) == partial_cmp(a, b) = "Greater"
eq(a, b) == partial_cmp(a, b) = "Equal"

Kinds(x, y, k1, k2) == x.kind = k1 /\ y.kind = k2

precedes(x, y) ==
    CASE Kinds(x, y, "Interval", "IntervalFrom") -> lt(x.end, y.start)
      [] Kinds(x, y, "Interval", "Interval") -> lt(x.end, y.start)
      [] Kinds(x, y, "IntervalTo", "IntervalFrom") -> lt(x.end, y.start)
      [] Kinds(x, y, "IntervalTo", "Interval") -> lt(x.end, y.start)
      [] OTHER -> FALSE

meets(x, y) ==
    CASE Kinds(x, y, "Interval", "IntervalFrom") -> eq(x.end, y.start)
      [] Kinds(x, y, "Interval", "Interval") -> eq(x.end, y.start)
      [] Kinds(x, y, "IntervalTo", "IntervalFrom") -> eq(x.end, y.start)
      [] Kinds(x, y, "IntervalTo", "Interval") -> eq(x.end, y.start)
      [] OTHER -> FALSE

overlaps(x, y) ==
    CASE Kinds(x, y, "Interval", "IntervalFrom") ->
            lt(x.start, y.start) /\ lt(y.start, x.end)
      [] Kinds(x, y, "Interval", "Interval") ->
            lt(x.start, y.start) /\ lt(y.start, x.end) /\ lt(x.end, y.end)
      [] Kinds(x, y, "IntervalTo", "IntervalFrom") -> gt(x.end, y.start)
      [] Kinds(x, y, "IntervalTo", "Interval") ->
            gt(x.end, y.start) /\ lt(x.end, y.end)
      [] OTHER -> FALSE

starts(x, y) ==
    CASE Kinds(x, y, "Interval", "IntervalTo") -> lt(x.end, y.end)
      [] Kinds(x, y, "Interval", "IntervalFrom") -> eq(x.start, y.start)
      [] Kinds(x, y, "Interval", "Interval") ->
            eq(x.start, y.start) /\ lt(x.end, y.end)
      [] Kinds(x, y, "IntervalTo", "IntervalTo") -> lt(x.end, y.end)
      [] OTHER -> FALSE

contains(x, y) ==
    CASE Kinds(x, y, "Interval", "Interval") ->
            lt(x.start, y.start) /\ gt(x.end, y.end)
      [] Kinds(x, y, "IntervalFrom", "Interval") -> lt(x.start, y.start)
      [] Kinds(x, y, "IntervalTo", "Interval") -> gt(x.end, y.end)
      [] Kinds(x, y, "IntervalFull", "Interval") -> TRUE
      [] OTHER -> FALSE

finishes(x, y) ==
    CASE Kinds(x, y, "Interval", "IntervalTo") -> eq(x.end, y.end)
      [] Kinds(x, y, "Interval", "IntervalFrom") -> gt(x.start, y.start)
      [] Kinds(x, y, "Interval", "Interval") ->
            gt(x.start, y.start) /\ eq(x.end, y.end)
      [] Kinds(x, y, "IntervalFrom", "IntervalFull") -> TRUE
      [] Kinds(x, y, "IntervalFrom", "IntervalFrom") -> gt(x.start, y.start)
      [] Kinds(x, y, "IntervalFrom", "Interval") -> gt(x.start, y.start)
      [] OTHER -> FALSE

equals(x, y) ==
    CASE Kinds(x, y, "Interval", "Interval") ->
            eq(x.start, y.start) /\ eq(x.end, y.end)
      [] Kinds(x, y, "IntervalFrom", "IntervalFrom") -> eq(x.start, y.start)
      [] Kinds(x, y, "IntervalFrom", "Interval") -> eq(x.start, y.start)
      [] Kinds(x, y, "IntervalTo", "IntervalTo") -> eq(x.end, y.end)
      [] Kinds(x, y, "IntervalFull", "IntervalFull") -> TRUE
      [] OTHER -> FALSE

\* The 13 predicate methods, each under the name of the relation it tests;
\* an is_* method is the default of its trait: other.method(self).
Predicate(r, x, y) ==
    CASE r = "Precedes" -> precedes(x, y)
      [] r = "IsPrecededBy" -> precedes(y, x)
      [] r = "Meets" -> meets(x, y)
      [] r = "IsMetBy" -> meets(y, x)
      [] r = "Overlaps" -> overlaps(x, y)
      [] r = "IsOverlappedBy" -> overlaps(y, x)
      [] r = "Starts" -> starts(x, y)
      [] r = "IsStartedBy" -> starts(y, x)
      [] r = "Contains" -> contains(x, y)
      [] r = "IsContainedBy" -> contains(y, x)
      [] r = "Finishes" -> finishes(x, y)
      [] r = "IsFinishedBy" -> finishes(y, x)
      [] r = "Equals" -> equals(x, y)

PredicatesTrue(x, y) == {r \in Relations : Predicate(r, x, y)}

(***************************************************************************)
(* IntervalValidator.                                                      *)
(***************************************************************************)
\* PartialOrd::ge, the `>=` of the validator: false when there is no order.
ge(o) == o \in {"Greater", "Equal"}

\* Mutant: a half-bounded range is never empty.
validate_interval_unbounded_ok(r) ==
    IF r.kind \in {"Range", "RangeInclusive"}
           /\ (ge(partial_cmp(r.start, r.end))
                  \/ ge(partial_cmp(r.start, max_value))
                  \/ le(partial_cmp(r.end, min_value)))
    THEN "EmptyInterval"
    ELSE "Ok"

\* Mutant: a..=a is not empty.
validate_interval_closed(r) ==
    CASE r.kind \in {"RangeTo", "RangeToInclusive"} ->
            IF le(partial_cmp(r.end, min_value)) THEN "EmptyInterval" ELSE "Ok"
      [] r.kind = "RangeFrom" ->
            IF ge(partial_cmp(r.start, max_value)) THEN "EmptyInterval" ELSE "Ok"
      [] r.kind = "Range" ->
            IF ge(partial_cmp(r.start, r.end))
                   \/ ge(partial_cmp(r.start, max_value))
                   \/ le(partial_cmp(r.end, min_value))
            THEN "EmptyInterval" ELSE "Ok"
      [] r.kind = "RangeInclusive" ->
            IF partial_cmp(r.start, r.end) = "Greater"
                   \/ ge(partial_cmp(r.start, max_value))
                   \/ le(partial_cmp(r.end, min_value))
            THEN "EmptyInterval" ELSE "Ok"
      [] OTHER -> "Ok"

\* IntervalValidator::validate_interval, one impl per range type.
validate_interval(r) ==
    CASE r.kind = "RangeFull" -> "Ok"
      [] r.kind \in {"RangeTo", "RangeToInclusive"} ->
            IF le(partial_cmp(r.end, min_value)) THEN "EmptyInterval" ELSE "Ok"
      [] r.kind = "RangeFrom" ->
            IF ge(partial_cmp(r.start, max_value)) THEN "EmptyInterval" ELSE "Ok"
      [] r.kind \in {"Range", "RangeInclusive"} ->
            IF ge(partial_cmp(r.start, r.end))
                   \/ ge(partial_cmp(r.start, max_value))
                   \/ le(partial_cmp(r.end, min_value))
            THEN "EmptyInterval" ELSE "Ok"

(***************************************************************************)
(* RangeRelations: the predicate methods on Rust's ranges, one impl per    *)
(* pair of range types.  A method that an impl leaves out is the default   *)
(* of the trait: it validates both ranges, panics (unwrap) when one is     *)
(* empty, and returns false.  A method that an impl defines validates      *)
(* nothing.                                                                *)
(***************************************************************************)
RangeRelations_precedes_impls ==
    {<<"RangeTo", "RangeFrom">>, <<"RangeTo", "Range">>,
     <<"RangeToInclusive", "RangeFrom">>, <<"RangeToInclusive", "RangeInclusive">>,
     <<"Range", "RangeFrom">>, <<"Range", "Range">>,
     <<"RangeInclusive", "RangeToInclusive">>,
     <<"RangeInclusive", "RangeFrom">>, <<"RangeInclusive", "RangeInclusive">>}

RangeRelations_precedes(x, y) ==
    CASE Kinds(x, y, "RangeInclusive", "RangeToInclusive") -> lt(x.end, min_value)
      [] <<x.kind, y.kind>> \in RangeRelations_precedes_impls -> lt(x.end, y.start)
      [] OTHER -> FALSE

RangeRelations_meets_impls ==
    RangeRelations_precedes_impls
    \cup {<<"Range", "RangeFull">>, <<"Range", "RangeTo">>}

RangeRelations_meets(x, y) ==
    CASE <<x.kind, y.kind>> \in {<<"Range", "RangeFull">>, <<"Range", "RangeTo">>,
                                  <<"RangeInclusive", "RangeToInclusive">>} ->
            eq(x.end, min_value)
      [] <<x.kind, y.kind>> \in RangeRelations_meets_impls -> eq(x.end, y.start)
      [] OTHER -> FALSE

RangeRelations_overlaps_impls ==
    {<<"RangeTo", "RangeFrom">>, <<"RangeTo", "Range">>,
     <<"RangeToInclusive", "RangeFrom">>, <<"RangeToInclusive", "RangeInclusive">>,
     <<"Range", "RangeFrom">>, <<"Range", "Range">>,
     <<"RangeInclusive", "RangeFrom">>, <<"RangeInclusive", "RangeInclusive">>}

RangeRelations_overlaps(x, y) ==
    CASE <<x.kind, y.kind>> \in {<<"RangeTo", "RangeFrom">>,
                                  <<"RangeToInclusive", "RangeFrom">>} ->
            gt(x.end, y.start) /\ lt(x.end, max_value)
      [] <<x.kind, y.kind>> \in {<<"RangeTo", "Range">>,
                                  <<"RangeToInclusive", "RangeInclusive">>} ->
            gt(x.end, y.start) /\ lt(x.end, y.end)
      [] <<x.kind, y.kind>> \in {<<"Range", "RangeFrom">>,
                                  <<"RangeInclusive", "RangeFrom">>} ->
            lt(x.start, y.start) /\ lt(y.start, x.end) /\ lt(x.end, max_value)
      [] <<x.kind, y.kind>> \in {<<"Range", "Range">>,
                                  <<"RangeInclusive", "RangeInclusive">>} ->
            lt(x.start, y.start) /\ lt(y.start, x.end) /\ lt(x.end, y.end)
      [] OTHER -> FALSE

RangeRelations_starts_impls ==
    {<<"RangeFull", "RangeTo">>, <<"RangeFull", "RangeToInclusive">>,
     <<"RangeTo", "RangeFull">>, <<"RangeToInclusive", "RangeFull">>,
     <<"RangeTo", "RangeTo">>, <<"RangeToInclusive", "RangeToInclusive">>,
     <<"Range", "RangeFull">>, <<"RangeInclusive", "RangeFull">>,
     <<"Range", "RangeTo">>, <<"RangeInclusive", "RangeToInclusive">>,
     <<"Range", "RangeFrom">>, <<"RangeInclusive", "RangeFrom">>,
     <<"Range", "Range">>, <<"RangeInclusive", "RangeInclusive">>}

RangeRelations_starts(x, y) ==
    CASE <<x.kind, y.kind>> \in {<<"RangeFull", "RangeTo">>,
                                  <<"RangeFull", "RangeToInclusive">>} ->
            lt(max_value, y.end)
      [] <<x.kind, y.kind>> \in {<<"RangeTo", "RangeFull">>,
                                  <<"RangeToInclusive", "RangeFull">>} ->
            lt(x.end, max_value)
      [] <<x.kind, y.kind>> \in {<<"RangeTo", "RangeTo">>,
                                  <<"RangeToInclusive", "RangeToInclusive">>} ->
            lt(x.end, y.end)
      [] <<x.kind, y.kind>> \in {<<"Range", "RangeFull">>,
                                  <<"RangeInclusive", "RangeFull">>} ->
            eq(x.start, min_value) /\ lt(x.end, max_value)
      [] <<x.kind, y.kind>> \in {<<"Range", "RangeTo">>,
                                  <<"RangeInclusive", "RangeToInclusive">>} ->
            eq(x.start, min_value) /\ lt(x.end, y.end)
      [] <<x.kind, y.kind>> \in {<<"Range", "RangeFrom">>,
                                  <<"RangeInclusive", "RangeFrom">>} ->
            eq(x.start, y.start) /\ lt(x.end, max_value)
      [] <<x.kind, y.kind>> \in {<<"Range", "Range">>,
                                  <<"RangeInclusive", "RangeInclusive">>} ->
            eq(x.start, y.start) /\ lt(x.end, y.end)
      [] OTHER -> FALSE

RangeRelations_encloses_impls ==
    {<<"RangeFull", "Range">>, <<"RangeFull", "RangeInclusive">>,
     <<"RangeToInclusive", "RangeInclusive">>,
     <<"RangeFrom", "Range">>, <<"RangeFrom", "RangeInclusive">>,
     <<"Range", "Range">>, <<"RangeInclusive", "RangeInclusive">>}

RangeRelations_encloses(x, y) ==
    IF <<x.kind, y.kind>> \in RangeRelations_encloses_impls
    THEN CASE x.kind = "RangeFull" ->
                 lt(min_value, y.start) /\ gt(max_value, y.end)
           [] x.kind \in {"RangeTo", "RangeToInclusive"} ->
                 lt(min_value, y.start) /\ gt(x.end, y.end)
           [] x.kind = "RangeFrom" ->
                 lt(x.start, y.start) /\ gt(max_value, y.end)
           [] OTHER ->
                 lt(x.start, y.start) /\ gt(x.end, y.end)
    ELSE FALSE

RangeRelations_finishes_impls ==
    {<<"RangeFull", "RangeFrom">>, <<"RangeFrom", "RangeFull">>,
     <<"RangeFrom", "RangeTo">>, <<"RangeFrom", "RangeToInclusive">>,
     <<"RangeFrom", "RangeFrom">>,
     <<"RangeFrom", "Range">>, <<"RangeFrom", "RangeInclusive">>,
     <<"Range", "RangeFull">>, <<"RangeInclusive", "RangeFull">>,
     <<"Range", "RangeTo">>, <<"RangeInclusive", "RangeToInclusive">>,
     <<"Range", "RangeFrom">>, <<"RangeInclusive", "RangeFrom">>,
     <<"Range", "Range">>, <<"RangeInclusive", "RangeInclusive">>}

RangeRelations_finishes(x, y) ==
    CASE Kinds(x, y, "RangeFull", "RangeFrom") -> lt(min_value, y.start)
      [] Kinds(x, y, "RangeFrom", "RangeFull") -> gt(x.start, min_value)
      [] <<x.kind, y.kind>> \in {<<"RangeFrom", "RangeTo">>,
                                  <<"RangeFrom", "RangeToInclusive">>} ->
            gt(x.start, min_value) /\ eq(max_value, y.end)
      [] Kinds(x, y, "RangeFrom", "RangeFrom") -> gt(x.start, y.start)
      [] <<x.kind, y.kind>> \in {<<"RangeFrom", "Range">>,
                                  <<"RangeFrom", "RangeInclusive">>} ->
            gt(x.start, y.start) /\ eq(max_value, y.end)
      [] <<x.kind, y.kind>> \in {<<"Range", "RangeFull">>,
                                  <<"RangeInclusive", "RangeFull">>} ->
            gt(x.start, min_value) /\ eq(x.end, max_value)
      [] <<x.kind, y.kind>> \in {<<"Range", "RangeTo">>,
                                  <<"RangeInclusive", "RangeToInclusive">>} ->
            gt(x.start, min_value) /\ eq(x.end, y.end)
      [] <<x.kind, y.kind>> \in {<<"Range", "RangeFrom">>,
                                  <<"RangeInclusive", "RangeFrom">>} ->
            gt(x.start, y.start) /\ eq(x.end, max_value)
      [] <<x.kind, y.kind>> \in {<<"Range", "Range">>,
                                  <<"RangeInclusive", "RangeInclusive">>} ->
            gt(x.start, y.start) /\ eq(x.end, y.end)
      [] OTHER -> FALSE

\* Every impl defines `equals`: the start, or T::min_value() where the type
\* has none, equals the other's, and so does the end, or T::max_value().
RangeRelations_equals(x, y) ==
    /\ eq(start_or_min(x), start_or_min(y))
    /\ eq(end_or_max(x), end_or_max(y))

\* The 13 methods under the names of the relations they test; an is_*
\* method is the default of the trait: other.method(self).
RangeRelations_method(r, x, y) ==
    CASE r = "Precedes" -> RangeRelations_precedes(x, y)
      [] r = "IsPrecededBy" -> RangeRelations_precedes(y, x)
      [] r = "Meets" -> RangeRelations_meets(x, y)
      [] r = "IsMetBy" -> RangeRelations_meets(y, x)
      [] r = "Overlaps" -> RangeRelations_overlaps(x, y)
      [] r = "IsOverlappedBy" -> RangeRelations_overlaps(y, x)
      [] r = "Starts" -> RangeRelations_starts(x, y)
      [] r = "IsStartedBy" -> RangeRelations_starts(y, x)
      [] r = "Contains" -> RangeRelations_encloses(x, y)
      [] r = "IsContainedBy" -> RangeRelations_encloses(y, x)
      [] r = "Finishes" -> RangeRelations_finishes(x, y)
      [] r = "IsFinishedBy" -> RangeRelations_finishes(y, x)
      [] r = "Equals" -> RangeRelations_equals(x, y)

\* Whether the call runs the default body of the trait.
RangeRelations_default(r, x, y) ==
    CASE r = "Precedes" -> <<x.kind, y.kind>> \notin RangeRelations_precedes_impls
      [] r = "IsPrecededBy" -> <<y.kind, x.kind>> \notin RangeRelations_precedes_impls
      [] r = "Meets" -> <<x.kind, y.kind>> \notin RangeRelations_meets_impls
      [] r = "IsMetBy" -> <<y.kind, x.kind>> \notin RangeRelations_meets_impls
      [] r = "Overlaps" -> <<x.kind, y.kind>> \notin RangeRelations_overlaps_impls
      [] r = "IsOverlappedBy" -> <<y.kind, x.kind>> \notin RangeRelations_overlaps_impls
      [] r = "Starts" -> <<x.kind, y.kind>> \notin RangeRelations_starts_impls
      [] r = "IsStartedBy" -> <<y.kind, x.kind>> \notin RangeRelations_starts_impls
      [] r = "Contains" -> <<x.kind, y.kind>> \notin RangeRelations_encloses_impls
      [] r = "IsContainedBy" -> <<y.kind, x.kind>> \notin RangeRelations_encloses_impls
      [] r = "Finishes" -> <<x.kind, y.kind>> \notin RangeRelations_finishes_impls
      [] r = "IsFinishedBy" -> <<y.kind, x.kind>> \notin RangeRelations_finishes_impls
      [] r = "Equals" -> FALSE

Panic == "Panic"

\* All 13 methods called on a pair: the ones that return true, or a panic
\* when a default body meets an empty range.
RangeRelations_true(x, y) ==
    IF /\ validate_interval(x) # "Ok" \/ validate_interval(y) # "Ok"
       /\ \E r \in Relations : RangeRelations_default(r, x, y)
    THEN {Panic}
    ELSE {r \in Relations : RangeRelations_method(r, x, y)}


(***************************************************************************)
(* RangeBoundsExt: the predicate methods on the bounds of two ranges, all  *)
(* of them defaults of the trait, which every RangeBounds implements.      *)
(***************************************************************************)
\* PartialEq of Bound, derived: the same variant and the same value.
Bound_eq(x, y) ==
    \/ x.tag = "Unbounded" /\ y.tag = "Unbounded"
    \/ x.tag = "Bounded" /\ y.tag = "Bounded" /\ eq(x.value, y.value)

\* PartialEq<EndBound> for EndBound: self.bound == other.bound
EndBound_eq_EndBound(x, y) == Bound_eq(x, y)

\* PartialEq<StartBound> for StartBound
StartBound_eq_StartBound(x, y) == Bound_eq(x, y)

\* PartialEq<StartBound> for EndBound
EndBound_eq_StartBound(x, y) ==
    IF x.tag = "Bounded" /\ y.tag = "Bounded" THEN eq(x.value, y.value)
    ELSE IF x.tag = "Bounded" THEN eq(x.value, min_value)
    ELSE IF y.tag = "Bounded" THEN eq(max_value, y.value)
    ELSE FALSE

RangeBoundsExt_precedes(x, y) ==
    EndBound_partial_cmp_StartBound(end_bound(x), start_bound(y)) = "Less"

RangeBoundsExt_meets(x, y) ==
    EndBound_eq_StartBound(end_bound(x), start_bound(y))

RangeBoundsExt_overlaps(x, y) ==
    /\ EndBound_partial_cmp_StartBound(end_bound(x), start_bound(y)) = "Greater"
    /\ EndBound_partial_cmp_EndBound(end_bound(x), end_bound(y)) = "Less"

RangeBoundsExt_starts(x, y) ==
    /\ StartBound_eq_StartBound(start_bound(x), start_bound(y))
    /\ EndBound_partial_cmp_EndBound(end_bound(x), end_bound(y)) = "Less"

RangeBoundsExt_contains(x, y) ==
    /\ StartBound_partial_cmp_StartBound(start_bound(x), start_bound(y)) = "Less"
    /\ EndBound_partial_cmp_EndBound(end_bound(x), end_bound(y)) = "Greater"

RangeBoundsExt_finishes(x, y) ==
    /\ StartBound_partial_cmp_StartBound(start_bound(x), start_bound(y)) = "Greater"
    /\ EndBound_eq_EndBound(end_bound(x), end_bound(y))

RangeBoundsExt_equals(x, y) ==
    /\ StartBound_eq_StartBound(start_bound(x), start_bound(y))
    /\ EndBound_eq_EndBound(end_bound(x), end_bound(y))

\* The 13 methods under the names of the relations they test; an is_*
\* method is other.method(self).
RangeBoundsExt_method(r, x, y) ==
    CASE r = "Precedes" -> RangeBoundsExt_precedes(x, y)
      [] r = "IsPrecededBy" -> RangeBoundsExt_precedes(y, x)
      [] r = "Meets" -> RangeBoundsExt_meets(x, y)
      [] r = "IsMetBy" -> RangeBoundsExt_meets(y, x)
      [] r = "Overlaps" -> RangeBoundsExt_overlaps(x, y)
      [] r = "IsOverlappedBy" -> RangeBoundsExt_overlaps(y, x)
      [] r = "Starts" -> RangeBoundsExt_starts(x, y)
      [] r = "IsStartedBy" -> RangeBoundsExt_starts(y, x)
      [] r = "Contains" -> RangeBoundsExt_contains(x, y)
      [] r = "IsContainedBy" -> RangeBoundsExt_contains(y, x)
      [] r = "Finishes" -> RangeBoundsExt_finishes(x, y)
      [] r = "IsFinishedBy" -> RangeBoundsExt_finishes(y, x)
      [] r = "Equals" -> RangeBoundsExt_equals(x, y)

RangeBoundsExt_true(x, y) == {r \in Relations : RangeBoundsExt_method(r, x, y)}


(***************************************************************************)
(* Init draws the arguments of one family of functions (a pair of ranges,  *)
(* a pair of intervals, or a pair of relations); the variables of the      *)
(* other families hold no value.                                           *)
(***************************************************************************)
NotRun == "NotRun"

NoRanges ==
    /\ d = "Discrete"
    /\ s = Absent
    /\ t = Absent
    /\ atomics = NoAtomics(NotRun)
    /\ rel = NotRun
    /\ relSwap = NotRun
    /\ conv = NotRun

NoRelations ==
    /\ r1 = NotRun
    /\ r2 = NotRun
    /\ ord = NotRun
    /\ conv1 = NotRun
    /\ conv2 = NotRun

NoIntervals ==
    /\ si = Absent
    /\ ti = Absent
    /\ ns = Err(NotRun)
    /\ nt = Err(NotRun)
    /\ irel = NotRun

NoTuples == tup = NoAtomics("Absent")

\* Every (bb, be, eb, ee), whether a pair of intervals can produce it or not.
Tuples ==
    {SomeAtomics(bb, be, eb, ee) :
        bb \in Orderings, be \in Orderings, eb \in Orderings, ee \in Orderings}

TuplesInit ==
    /\ tup \in Tuples
    /\ NoRanges
    /\ NoRelations
    /\ NoIntervals

RangesInit ==
    /\ d \in Discreteness
    /\ s \in RangesOf(d)
    /\ t \in RangesOf(d)
    /\ atomics = NoAtomics(NotRun)
    /\ rel = NotRun
    /\ relSwap = NotRun
    /\ conv = NotRun
    /\ NoRelations
    /\ NoIntervals
    /\ NoTuples

RelationsInit ==
    /\ r1 \in Relations
    /\ r2 \in Relations
    /\ ord = NotRun
    /\ conv1 = NotRun
    /\ conv2 = NotRun
    /\ NoRanges
    /\ NoIntervals
    /\ NoTuples

IntervalsInit ==
    /\ si \in Intervals
    /\ ti \in Intervals
    /\ ns = Err(NotRun)
    /\ nt = Err(NotRun)
    /\ irel = NotRun
    /\ NoRanges
    /\ NoRelations
    /\ NoTuples

\* No function has been applied yet.
NothingRun ==
    /\ vs = NotRun
    /\ vt = NotRun
    /\ cb = NoAtomics(NotRun)
    /\ ct = NoAtomics(NotRun)
    /\ atomicsA = NoAtomics(NotRun)
    /\ evaluated = 0
    /\ sugar = {NotRun}
    /\ rsugar = {NotRun}
    /\ esugar = {NotRun}
    /\ trel = NotRun

Init ==
    /\ \/ RangesInit
       \/ RelationsInit
       \/ IntervalsInit
       \/ TuplesInit
    /\ NothingRun

(***************************************************************************)
(* Ranges.                                                                 *)
(***************************************************************************)
\* src/ holds two ranges APIs, each with an `AtomicRelations` of its own:
\* the one generic over RangeBounds<T, D> (atomics.rs, relation.rs,
\* range_bounds_ext.rs) and the one with an impl per pair of range types
\* (atomic_relations.rs, validator.rs, range_relations.rs).  A program is
\* built against one of them, so a behaviour calls into one of them only.
NoPerTypeCall == vs = NotRun /\ atomicsA.tag = NotRun /\ rsugar = {NotRun}
NoGenericCall == rel = NotRun /\ relSwap = NotRun /\ esugar = {NotRun}

\* Relation::from_ranges(s, t)
FromRanges ==
    /\ s.kind # "Absent"
    /\ NoPerTypeCall
    /\ rel = NotRun
    /\ atomics' = AtomicRelations_from_ranges(s, t)
    /\ rel' = Relation_from_ranges(s, t)
    /\ UNCHANGED <<d, s, t, relSwap, conv, relationVars, intervalVars, validatorVars, boundVars, sentinelVars, sugarVars, rangeSugarVars, extVars, tupleVars>>

\* Relation::from_ranges(t, s)
FromRangesSwapped ==
    /\ s.kind # "Absent"
    /\ NoPerTypeCall
    /\ relSwap = NotRun
    /\ relSwap' = Relation_from_ranges(t, s)
    /\ UNCHANGED <<d, s, t, atomics, rel, conv, relationVars, intervalVars, validatorVars, boundVars, sentinelVars, sugarVars, rangeSugarVars, extVars, tupleVars>>

\* rel.as_converse(), on a relation that from_ranges returned
AsConverse ==
    /\ rel \in Relations
    /\ conv = NotRun
    /\ conv' = as_converse(rel)
    /\ UNCHANGED <<d, s, t, atomics, rel, relSwap, relationVars, intervalVars, validatorVars, boundVars, sentinelVars, sugarVars, rangeSugarVars, extVars, tupleVars>>

\* s.precedes(&t), s.is_preceded_by(&t), ..., s.equals(&t) of RangeBoundsExt
ExtPredicates ==
    /\ s.kind # "Absent"
    /\ NoPerTypeCall
    /\ esugar = {NotRun}
    /\ esugar' = RangeBoundsExt_true(s, t)
    /\ UNCHANGED <<rangeVars, relationVars, intervalVars, validatorVars, boundVars, sentinelVars, sugarVars, rangeSugarVars, tupleVars>>

\* <AtomicRelations as FromRanges<S, T>>::from_ranges(s, t)
FromRangesPerType ==
    /\ s.kind # "Absent"
    /\ NoGenericCall
    /\ atomicsA.tag = NotRun
    /\ atomicsA' = FromRanges_from_ranges(s, t)
    /\ evaluated' = FromRanges_evaluated(s, t)
    /\ UNCHANGED <<rangeVars, relationVars, intervalVars, validatorVars, boundVars, sugarVars, rangeSugarVars, extVars, tupleVars>>

\* s.precedes(&t), s.is_preceded_by(&t), ..., s.equals(&t)
RangePredicates ==
    /\ s.kind # "Absent"
    /\ NoGenericCall
    /\ rsugar = {NotRun}
    /\ rsugar' = RangeRelations_true(s, t)
    /\ UNCHANGED <<rangeVars, relationVars, intervalVars, validatorVars, boundVars, sentinelVars, sugarVars, extVars, tupleVars>>

\* validator.validate_interval(&s), validator.validate_interval(&t)
Validate ==
    /\ s.kind # "Absent"
    /\ NoGenericCall
    /\ vs = NotRun
    /\ vs' = validate_interval(s)
    /\ vt' = validate_interval(t)
    /\ UNCHANGED <<rangeVars, relationVars, intervalVars, boundVars, sentinelVars, sugarVars, rangeSugarVars, extVars, tupleVars>>

(***************************************************************************)
(* Tuples.                                                                 *)
(***************************************************************************)
\* Relation::from(tup)
FromAtomics ==
    /\ tup.tag = "Some"
    /\ trel = NotRun
    /\ trel' = Relation_from(tup)
    /\ UNCHANGED <<tup, rangeVars, relationVars, intervalVars, validatorVars, boundVars, sentinelVars, sugarVars, rangeSugarVars, extVars>>

(***************************************************************************)
(* Relations.                                                              *)
(***************************************************************************)
\* r1.cmp(&r2)
Cmp ==
    /\ r1 \in Relations
    /\ ord = NotRun
    /\ ord' = Relation_cmp(r1, r2)
    /\ UNCHANGED <<r1, r2, conv1, conv2, rangeVars, intervalVars, validatorVars, boundVars, sentinelVars, sugarVars, rangeSugarVars, extVars, tupleVars>>

\* r1.as_converse()
Converse ==
    /\ r1 \in Relations
    /\ conv1 = NotRun
    /\ conv1' = as_converse(r1)
    /\ UNCHANGED <<r1, r2, ord, conv2, rangeVars, intervalVars, validatorVars, boundVars, sentinelVars, sugarVars, rangeSugarVars, extVars, tupleVars>>

\* r1.as_converse().as_converse()
ConverseAgain ==
    /\ conv1 \in Relations
    /\ conv2 = NotRun
    /\ conv2' = as_converse(conv1)
    /\ UNCHANGED <<r1, r2, ord, conv1, rangeVars, intervalVars, validatorVars, boundVars, sentinelVars, sugarVars, rangeSugarVars, extVars, tupleVars>>

(***************************************************************************)
(* Intervals.                                                              *)
(***************************************************************************)
\* si.try_into()
TryIntoS ==
    /\ si.kind # "Absent"
    /\ ns = Err(NotRun)
    /\ ns' = try_into_NonEmpty(si)
    /\ UNCHANGED <<si, ti, nt, irel, rangeVars, relationVars, validatorVars, boundVars, sentinelVars, sugarVars, rangeSugarVars, extVars, tupleVars>>

\* ti.try_into()
TryIntoT ==
    /\ ti.kind # "Absent"
    /\ nt = Err(NotRun)
    /\ nt' = try_into_NonEmpty(ti)
    /\ UNCHANGED <<si, ti, ns, irel, rangeVars, relationVars, validatorVars, boundVars, sentinelVars, sugarVars, rangeSugarVars, extVars, tupleVars>>

\* Relation::try_from_intervals(&ns, &nt): it takes NonEmpty values only.
FromIntervals ==
    /\ ns.tag = "Ok"
    /\ nt.tag = "Ok"
    /\ irel = NotRun
    /\ irel' = Relation_try_from_intervals(ns.value, nt.value)
    /\ UNCHANGED <<si, ti, ns, nt, rangeVars, relationVars, validatorVars, boundVars, sentinelVars, sugarVars, rangeSugarVars, extVars, tupleVars>>

\* Bb/Be/Eb/Ee::from_bounds on the bounds of si and ti (T: Ord)
FromBounds ==
    /\ si.kind # "Absent"
    /\ IsOrd(si)
    /\ IsOrd(ti)
    /\ cb.tag = NotRun
    /\ cb' = FourFromBounds(si, ti)
    /\ UNCHANGED <<ct, rangeVars, relationVars, intervalVars, validatorVars, sentinelVars, sugarVars, rangeSugarVars, extVars, tupleVars>>

\* Bb/Be/Eb/Ee::try_from_bounds on the bounds of si and ti (T: PartialOrd)
TryFromBounds ==
    /\ si.kind # "Absent"
    /\ ct.tag = NotRun
    /\ ct' = FourTryFromBounds(si, ti)
    /\ UNCHANGED <<cb, rangeVars, relationVars, intervalVars, validatorVars, sentinelVars, sugarVars, rangeSugarVars, extVars, tupleVars>>

\* Every predicate method of ns against nt
Predicates ==
    /\ ns.tag = "Ok"
    /\ nt.tag = "Ok"
    /\ sugar = {NotRun}
    /\ sugar' = PredicatesTrue(ns.value, nt.value)
    /\ UNCHANGED <<rangeVars, relationVars, intervalVars, validatorVars,
                   boundVars, sentinelVars, rangeSugarVars, extVars, tupleVars>>

Next ==
    \/ FromRanges
    \/ FromRangesSwapped
    \/ AsConverse
    \/ Validate
    \/ FromRangesPerType
    \/ Cmp
    \/ Converse
    \/ ConverseAgain
    \/ TryIntoS
    \/ TryIntoT
    \/ FromIntervals
    \/ FromBounds
    \/ TryFromBounds
    \/ Predicates
    \/ RangePredicates
    \/ ExtPredicates
    \/ FromAtomics

Spec == Init /\ [][Next]_vars

(***************************************************************************)
(* Properties.                                                             *)
(***************************************************************************)

\* A range that holds at least one value of T: start < end for a..b,
\* start <= end for a..=b, and a half-bounded range whose bounded side
\* leaves a value of T on its open side.
NonEmptyRange(r) ==
    CASE r.kind = "RangeFull" -> TRUE
      [] r.kind = "RangeFrom" -> r.start \in Ordered
      [] r.kind = "RangeTo" -> r.end \in Ordered /\ r.end > MinValue
      [] r.kind = "RangeToInclusive" -> r.end \in Ordered
      [] r.kind = "Range" ->
            r.start \in Ordered /\ r.end \in Ordered /\ r.start < r.end
      [] r.kind = "RangeInclusive" ->
            r.start \in Ordered /\ r.end \in Ordered /\ r.start <= r.end
      [] OTHER -> FALSE

\* The 13 conditions of the decision table, each read on its own.
Condition(r, a) ==
    CASE r = "Precedes" -> a.eb = "Less"
      [] r = "IsPrecededBy" -> a.be = "Greater"
      [] r = "Meets" -> a.eb = "Equal"
      [] r = "IsMetBy" -> a.be = "Equal"
      [] r = "Finishes" -> a.ee = "Equal" /\ a.bb = "Greater"
      [] r = "IsFinishedBy" -> a.ee = "Equal" /\ a.bb = "Less"
      [] r = "Starts" -> a.bb = "Equal" /\ a.ee = "Less"
      [] r = "IsStartedBy" -> a.bb = "Equal" /\ a.ee = "Greater"
      [] r = "Contains" -> a.bb = "Less" /\ a.ee = "Greater"
      [] r = "IsContainedBy" -> a.bb = "Greater" /\ a.ee = "Less"
      [] r = "Equals" -> a.bb = "Equal" /\ a.ee = "Equal"
      [] r = "Overlaps" -> a.bb = "Less" /\ a.eb = "Greater" /\ a.ee = "Less"
      [] r = "IsOverlappedBy" ->
            a.bb = "Greater" /\ a.be = "Less" /\ a.ee = "Greater"

ConditionsTrue(a) == {r \in Relations : Condition(r, a)}

\* C1: for every pair of non-empty ranges exactly one of the 13 conditions
\* of the decision table is true of their atomic relations, and the
\* classifier returns the relation of that condition.
C1_TotalAndExclusive ==
    (rel # NotRun /\ NonEmptyRange(s) /\ NonEmptyRange(t)) =>
        /\ atomics.tag = "Some"
        /\ ConditionsTrue(atomics) = {rel}

\* C2: for every pair of non-empty ranges, classifying (t, s) returns the
\* converse of the classification of (s, t).
C2_SwapConsistency ==
    (conv # NotRun /\ relSwap # NotRun /\ NonEmptyRange(s) /\ NonEmptyRange(t)) =>
        relSwap = conv

\* The lazy classifier of the decision table: eb first, then be, then bb and
\* ee, each computed only when the rules before it did not match.
LazyRelation(x, y) ==
    LET eb == EndBound_partial_cmp_StartBound(end_bound(x), start_bound(y))
        be == StartBound_partial_cmp_EndBound(start_bound(x), end_bound(y))
        bb == StartBound_partial_cmp_StartBound(start_bound(x), start_bound(y))
        ee == EndBound_partial_cmp_EndBound(end_bound(x), end_bound(y))
    IN  IF eb = "Less" THEN "Precedes"
        ELSE IF be = "Greater" THEN "IsPrecededBy"
        ELSE IF eb = "Equal" THEN "Meets"
        ELSE IF be = "Equal" THEN "IsMetBy"
        ELSE IF ee = "Equal" /\ bb = "Greater" THEN "Finishes"
        ELSE IF ee = "Equal" /\ bb = "Less" THEN "IsFinishedBy"
        ELSE IF bb = "Equal" /\ ee = "Less" THEN "Starts"
        ELSE IF bb = "Equal" /\ ee = "Greater" THEN "IsStartedBy"
        ELSE IF bb = "Less" /\ ee = "Greater" THEN "Contains"
        ELSE IF bb = "Greater" /\ ee = "Less" THEN "IsContainedBy"
        ELSE IF bb = "Equal" /\ ee = "Equal" THEN "Equals"
        ELSE IF bb = "Less" /\ ee = "Less" THEN "Overlaps"
        ELSE "IsOverlappedBy"

\* C3: on every pair of ranges the eager classifier classifies, it returns
\* what the lazy classifier returns, and its result is the same for every
\* value of the comparators the lazy classifier did not compute (bb, be and
\* ee after eb = Less; bb and ee after a rule on eb or be matched).
C3_ShortCircuitEquivalence ==
    rel \in Relations =>
        /\ rel = LazyRelation(s, t)
        /\ \A p \in Orderings, q \in Orderings, w \in Orderings :
            /\ atomics.eb = "Less" =>
                   Relation_from(SomeAtomics(p, q, "Less", w)) = rel
            /\ (atomics.be = "Greater" \/ atomics.eb = "Equal"
                    \/ atomics.be = "Equal") =>
                   Relation_from(SomeAtomics(p, atomics.be, atomics.eb, w)) = rel

\* C3 witness: a rule on eb matched while the comparators that were not
\* computed satisfy the condition of another relation (Starts).
C3_Witness ==
    /\ rel = "Meets"
    /\ atomics.bb = "Equal"
    /\ atomics.ee = "Less"
    /\ NonEmptyRange(s)
    /\ NonEmptyRange(t)

(***************************************************************************)
(* The Allen relation of two non-empty sets of consecutive integers,       *)
(* stated on the sets themselves.                                          *)
(***************************************************************************)
PointSet(a, b) == {x \in Ordered : a <= x /\ x < b}

Least(S) == CHOOSE x \in S : \A y \in S : x <= y
Greatest(S) == CHOOSE x \in S : \A y \in S : y <= x

AllBefore(S, T) == \A x \in S, y \in T : x < y
GapBetween(S, T) == \E z \in Ordered : Greatest(S) < z /\ z < Least(T)
StrictSubset(S, T) == S \subseteq T /\ S # T

SetRelation(S, T) ==
    IF AllBefore(S, T)
    THEN (IF GapBetween(S, T) THEN "Precedes" ELSE "Meets")
    ELSE IF AllBefore(T, S)
    THEN (IF GapBetween(T, S) THEN "IsPrecededBy" ELSE "IsMetBy")
    ELSE IF S = T THEN "Equals"
    ELSE IF StrictSubset(S, T)
    THEN (IF Least(S) = Least(T) THEN "Starts"
          ELSE IF Greatest(S) = Greatest(T) THEN "Finishes"
          ELSE "IsContainedBy")
    ELSE IF StrictSubset(T, S)
    THEN (IF Least(S) = Least(T) THEN "IsStartedBy"
          ELSE IF Greatest(S) = Greatest(T) THEN "IsFinishedBy"
          ELSE "Contains")
    ELSE IF Least(S) < Least(T) THEN "Overlaps"
    ELSE "IsOverlappedBy"

LiteralScenarios ==
    { <<Range(2, 4), Range(5, 8), "Precedes">>,
      <<Range(2, 5), Range(5, 8), "Meets">>,
      <<Range(2, 6), Range(5, 8), "Overlaps">>,
      <<Range(4, 7), Range(4, 8), "Starts">>,
      <<Range(3, 7), Range(4, 6), "Contains">>,
      <<Range(4, 7), Range(3, 7), "Finishes">>,
      <<Range(4, 6), Range(4, 6), "Equals">> }

\* C4: the discrete classification of each literal pair of the spec is the
\* relation the spec names, and the classification of bounded integer ranges
\* a..b and c..d with a < b and c < d is the Allen relation of the point sets
\* [a, b) and [c, d).
C4_DiscreteScenarios ==
    (d = "Discrete" /\ rel # NotRun) =>
        /\ \A sc \in LiteralScenarios : (s = sc[1] /\ t = sc[2]) => rel = sc[3]
        /\ (s.kind = "Range" /\ t.kind = "Range"
                /\ NonEmptyRange(s) /\ NonEmptyRange(t)) =>
               rel = SetRelation(PointSet(s.start, s.end), PointSet(t.start, t.end))

\* C4 witness: the literal pair (2..6, 5..8) classified as Overlaps.
C4_Witness ==
    /\ d = "Discrete"
    /\ s = Range(2, 6)
    /\ t = Range(5, 8)
    /\ rel = "Overlaps"

(***************************************************************************)
(* The order and the converse of Relation.                                 *)
(***************************************************************************)
SpecChain ==
    <<"Precedes", "Meets", "Overlaps", "IsFinishedBy", "Contains", "Starts",
      "Equals", "IsStartedBy", "IsContainedBy", "Finishes", "IsOverlappedBy",
      "IsMetBy", "IsPrecededBy">>

ChainPosition(r) == CHOOSE i \in DOMAIN SpecChain : SpecChain[i] = r

Reverse(o) ==
    IF o = "Less" THEN "Greater" ELSE IF o = "Greater" THEN "Less" ELSE "Equal"

\* C5: cmp orders the 13 relations as the fixed chain Precedes < Meets <
\* Overlaps < IsFinishedBy < Contains < Starts < Equals < IsStartedBy <
\* IsContainedBy < Finishes < IsOverlappedBy < IsMetBy < IsPrecededBy; it is
\* total, antisymmetric and transitive, and Equal only for equal relations.
C5_FixedChain ==
    ord # NotRun =>
        /\ ord \in Orderings
        /\ ord = "Less" <=> ChainPosition(r1) < ChainPosition(r2)
        /\ ord = "Greater" <=> ChainPosition(r1) > ChainPosition(r2)
        /\ ord = "Equal" <=> r1 = r2
        /\ Relation_cmp(r2, r1) = Reverse(ord)
        /\ \A r3 \in Relations :
               (ord = "Less" /\ Relation_cmp(r2, r3) = "Less") =>
                   Relation_cmp(r1, r3) = "Less"

\* C5 witness: Contains compared with Starts.
C5_Witness ==
    /\ r1 = "Contains"
    /\ r2 = "Starts"
    /\ ord = "Less"

\* C6: the converse of the converse of a relation is that relation.
C6_ConverseInvolution ==
    conv2 # NotRun => conv2 = r1

\* C6 witness: Finishes reached back through IsFinishedBy.
C6_Witness ==
    /\ r1 = "Finishes"
    /\ conv1 = "IsFinishedBy"
    /\ conv2 = "Finishes"

ConversePairs ==
    { <<"Precedes", "IsPrecededBy">>, <<"Meets", "IsMetBy">>,
      <<"Overlaps", "IsOverlappedBy">>, <<"Finishes", "IsFinishedBy">>,
      <<"Contains", "IsContainedBy">>, <<"Starts", "IsStartedBy">> }

\* C7: as_converse maps each relation of a pair Precedes/IsPrecededBy,
\* Meets/IsMetBy, Overlaps/IsOverlappedBy, Finishes/IsFinishedBy,
\* Contains/IsContainedBy, Starts/IsStartedBy to the other one and Equals to
\* itself; it moves every relation but Equals, and no two relations have the
\* same converse.
C7_ConversePairing ==
    conv1 # NotRun =>
        /\ r1 = "Equals" => conv1 = "Equals"
        /\ r1 # "Equals" =>
               /\ conv1 # r1
               /\ <<r1, conv1>> \in ConversePairs \/ <<conv1, r1>> \in ConversePairs
        /\ r2 # r1 => as_converse(r2) # conv1
        /\ \E r \in Relations : as_converse(r) = r2

\* C7 witness: the converse of Starts.
C7_Witness ==
    /\ r1 = "Starts"
    /\ conv1 = "IsStartedBy"

(***************************************************************************)
(* Adjacent and nearly adjacent half-lines.                                *)
(***************************************************************************)
HalfLinesFourFive ==
    \/ d = "NonDiscrete" /\ s = RangeToInclusive(4) /\ t = RangeFrom(5)
    \/ d = "Discrete" /\ s = RangeTo(4) /\ t = RangeFrom(5)

\* C8 as the spec states it: (..=4, 5..) under continuous rules and the
\* discrete pair (..4, 5..) are both classified as Meets.
C8_AsStated ==
    (rel # NotRun /\ HalfLinesFourFive) => rel = "Meets"

\* C8 amended: (..=4, 5..) under continuous rules and the discrete pair
\* (..4, 5..) are both classified as Precedes.
C8_Amended ==
    (rel # NotRun /\ HalfLinesFourFive) => rel = "Precedes"

\* C8 witness: the continuous pair (..=4, 5..) classified.
C8_Witness ==
    /\ d = "NonDiscrete"
    /\ s = RangeToInclusive(4)
    /\ t = RangeFrom(5)
    /\ rel = "Precedes"

\* C9: for every ordered value x, in both domains, the half-line that ends
\* at x classified against the half-line that starts at x is Meets, and the
\* swapped pair is IsMetBy; for ranges (..x or ..=x against x..) and for
\* NonEmpty intervals (IntervalTo{end: x} against IntervalFrom{start: x}).
C9_AdjacentHalfLinesMeet ==
    /\ (s.kind \in {"RangeTo", "RangeToInclusive"} /\ t.kind = "RangeFrom"
            /\ s.end \in Ordered /\ s.end = t.start) =>
           /\ rel # NotRun => rel = "Meets"
           /\ relSwap # NotRun => relSwap = "IsMetBy"
    /\ (si.kind = "IntervalTo" /\ ti.kind = "IntervalFrom"
            /\ si.end \in Ordered /\ si.end = ti.start /\ irel # NotRun) =>
           irel = "Meets"
    /\ (si.kind = "IntervalFrom" /\ ti.kind = "IntervalTo"
            /\ si.start \in Ordered /\ si.start = ti.end /\ irel # NotRun) =>
           irel = "IsMetBy"

\* C9 witness: (..=5, 5..) classified in both orders.
C9_Witness ==
    /\ d = "NonDiscrete"
    /\ s = RangeToInclusive(5)
    /\ t = RangeFrom(5)
    /\ rel = "Meets"
    /\ relSwap = "IsMetBy"

(***************************************************************************)
(* NonEmpty.                                                               *)
(***************************************************************************)
Comparable(i) == i.start \in Ordered /\ i.end \in Ordered

\* What the claim says NonEmpty::try_from returns for Interval{start, end}.
TryFromAsClaimed(i, n) ==
    /\ n = Ok(i) <=> (Comparable(i) /\ i.start < i.end)
    /\ n = Err("EmptyInterval") <=> (Comparable(i) /\ i.start >= i.end)
    /\ n = Err("AmbiguousOrder") <=> ~Comparable(i)

HalfBoundedOrFull(r) ==
    r.kind \in {"RangeTo", "RangeToInclusive", "RangeFrom", "RangeFull"}

UnboundedInterval(i) ==
    i.kind \in {"IntervalTo", "IntervalFrom", "IntervalFull"}

\* The NonEmpty conversion of an interval with an unbounded side succeeds.
UnboundedIntervalsConvert ==
    /\ (UnboundedInterval(si) /\ ns # Err(NotRun)) => ns = Ok(si)
    /\ (UnboundedInterval(ti) /\ nt # Err(NotRun)) => nt = Ok(ti)

\* C11 as the spec states it: an unbounded side never makes an interval
\* empty: the NonEmpty conversions of IntervalTo, IntervalFrom and
\* IntervalFull succeed, and validate_interval returns Ok(()) for every
\* RangeTo, RangeToInclusive, RangeFrom and RangeFull.
C11_AsStated ==
    /\ UnboundedIntervalsConvert
    /\ (HalfBoundedOrFull(s) /\ vs # NotRun) => vs = "Ok"
    /\ (HalfBoundedOrFull(t) /\ vt # NotRun) => vt = "Ok"

\* The half-bounded ranges the validator calls empty: ..x and ..=x with
\* x <= T::min_value(), and x.. with x >= T::max_value().
EmptyAtExtreme(r) ==
    \/ r.kind \in {"RangeTo", "RangeToInclusive"}
           /\ r.end \in Ordered /\ r.end <= MinValue
    \/ r.kind = "RangeFrom" /\ r.start \in Ordered /\ r.start >= MaxValue

\* C11 amended: the NonEmpty conversions of IntervalTo, IntervalFrom and
\* IntervalFull succeed for every endpoint value; validate_interval returns
\* Ok(()) for RangeFull and for every RangeTo, RangeToInclusive and
\* RangeFrom except ..x and ..=x with x <= T::min_value() and x.. with
\* x >= T::max_value(), for which it returns Err(EmptyInterval).
C11_Amended ==
    /\ UnboundedIntervalsConvert
    /\ (HalfBoundedOrFull(s) /\ vs # NotRun) =>
           vs = (IF EmptyAtExtreme(s) THEN "EmptyInterval" ELSE "Ok")
    /\ (HalfBoundedOrFull(t) /\ vt # NotRun) =>
           vt = (IF EmptyAtExtreme(t) THEN "EmptyInterval" ELSE "Ok")

\* C11 witness: ..min rejected and 3.. accepted by the validator.
C11_Witness ==
    /\ s = RangeTo(MinValue)
    /\ vs = "EmptyInterval"
    /\ t = RangeFrom(3)
    /\ vt = "Ok"

BoundedRange(r) ==
    /\ r.kind \in {"Range", "RangeInclusive"}
    /\ r.start \in Ordered
    /\ r.end \in Ordered

\* C12: for ordered endpoints, validate_interval on a..b and on a..=b
\* returns Err(EmptyInterval) exactly when a >= b and Ok(()) exactly when
\* a < b.
C12_BoundedRangeValidation ==
    /\ (BoundedRange(s) /\ vs # NotRun) =>
           /\ vs = "EmptyInterval" <=> s.start >= s.end
           /\ vs = "Ok" <=> s.start < s.end
    /\ (BoundedRange(t) /\ vt # NotRun) =>
           /\ vt = "EmptyInterval" <=> t.start >= t.end
           /\ vt = "Ok" <=> t.start < t.end

\* C12 witness: 3..=3 rejected and min..=5 accepted.
C12_Witness ==
    /\ s = RangeInclusive(3, 3)
    /\ vs = "EmptyInterval"
    /\ t = RangeInclusive(MinValue, 5)
    /\ vt = "Ok"

\* What the spec calls an empty bounded range in domain D.
EmptyInDomain(D, r) ==
    IF D = "Discrete" THEN r.start >= r.end ELSE r.start > r.end

\* C13: AtomicRelations::from_ranges fails on a pair of bounded ranges iff
\* one of them is empty in the domain of the call: start >= end for a
\* discrete range, start > end for a non-discrete one.
C13_EmptinessFollowsDomain ==
    (atomics.tag # NotRun /\ BoundedRange(s) /\ BoundedRange(t)) =>
        (atomics.tag # "Some" <=> (EmptyInDomain(d, s) \/ EmptyInDomain(d, t)))

(***************************************************************************)
(* The comparators of the bounds of si and ti.                             *)
(***************************************************************************)
sbS == Interval_start_bound(si)
seS == Interval_end_bound(si)
sbT == Interval_start_bound(ti)
seT == Interval_end_bound(ti)

NativeOrder(a, b) ==
    IF a < b THEN "Less" ELSE IF a > b THEN "Greater" ELSE "Equal"

\* The result the spec gives for a same-role comparison, with the result
\* for a bounded side against an unbounded one as a parameter.
SameRole(x, y, boundedVsUnbounded) ==
    IF x.tag = "Bounded" /\ y.tag = "Bounded" THEN NativeOrder(x.value, y.value)
    ELSE IF x.tag = "Bounded" THEN boundedVsUnbounded
    ELSE IF y.tag = "Bounded" THEN Reverse(boundedVsUnbounded)
    ELSE "Equal"

\* C14: Bb::from_bounds returns Greater for (Bounded, Unbounded), Less for
\* (Unbounded, Bounded), Equal for (Unbounded, Unbounded); Ee::from_bounds
\* returns Less, Greater and Equal for the same cases; both return the
\* native order of a and b for (Bounded a, Bounded b); for every value, the
\* minimum and the maximum of the type included.
C14_SameRoleComparators ==
    cb.tag = "Some" =>
        /\ cb.bb = SameRole(sbS, sbT, "Greater")
        /\ cb.ee = SameRole(seS, seT, "Less")

\* C14 witness: a start at the minimum against an unbounded start, and an
\* unbounded end against an end at the maximum.
C14_Witness ==
    /\ si = IntervalFrom(MinValue)
    /\ ti = IntervalTo(MaxValue)
    /\ cb.bb = "Greater"
    /\ cb.ee = "Greater"

\* C15: whenever one of the two bounds is Unbounded, Be::from_bounds returns
\* Less and Eb::from_bounds returns Greater, whatever the bounded value is;
\* they return Equal only for two Bounded bounds with equal values.
C15_CrossRoleComparators ==
    cb.tag = "Some" =>
        /\ (sbS.tag = "Unbounded" \/ seT.tag = "Unbounded") => cb.be = "Less"
        /\ (seS.tag = "Unbounded" \/ sbT.tag = "Unbounded") => cb.eb = "Greater"
        /\ cb.be = "Equal" =>
               (sbS.tag = "Bounded" /\ seT.tag = "Bounded" /\ sbS.value = seT.value)
        /\ cb.eb = "Equal" =>
               (seS.tag = "Bounded" /\ sbT.tag = "Bounded" /\ seS.value = sbT.value)
        /\ (sbS.tag = "Bounded" /\ seT.tag = "Bounded") =>
               cb.be = NativeOrder(sbS.value, seT.value)
        /\ (seS.tag = "Bounded" /\ sbT.tag = "Bounded") =>
               cb.eb = NativeOrder(seS.value, sbT.value)

\* C15 witness: a start at the maximum against an unbounded end, and an
\* unbounded end against a start at the maximum.
C15_Witness ==
    /\ si = IntervalFrom(MaxValue)
    /\ ti = IntervalFrom(MaxValue)
    /\ cb.be = "Less"
    /\ cb.eb = "Greater"

Undefined(x, y) ==
    /\ x.tag = "Bounded"
    /\ y.tag = "Bounded"
    /\ (x.value = NaN \/ y.value = NaN)

\* C16: for each of Bb, Be, Eb, Ee, try_from_bounds returns
\* Err(AmbiguousOrder) iff both bounds are Bounded and their comparison is
\* undefined; in every other case it returns the ordering from_bounds
\* returns for the same bounds, also when an Unbounded bound meets a value
\* that compares with nothing.
C16_PartialOrderComparators ==
    ct.tag = "Some" =>
        /\ ct.bb = AmbiguousOrder <=> Undefined(sbS, sbT)
        /\ ct.be = AmbiguousOrder <=> Undefined(sbS, seT)
        /\ ct.eb = AmbiguousOrder <=> Undefined(seS, sbT)
        /\ ct.ee = AmbiguousOrder <=> Undefined(seS, seT)
        /\ ~Undefined(sbS, sbT) => ct.bb = Bb_from_bounds(sbS, sbT)
        /\ ~Undefined(sbS, seT) => ct.be = Be_from_bounds(sbS, seT)
        /\ ~Undefined(seS, sbT) => ct.eb = Eb_from_bounds(seS, sbT)
        /\ ~Undefined(seS, seT) => ct.ee = Ee_from_bounds(seS, seT)
        /\ cb.tag = "Some" => ct = cb

\* C16 witness: NaN against NaN is ambiguous, an unbounded end against NaN
\* is not.
C16_Witness ==
    /\ si = IntervalFrom(NaN)
    /\ ti = Interval(NaN, NaN)
    /\ ct.bb = AmbiguousOrder
    /\ ct.ee = "Greater"

(***************************************************************************)
(* Failure of the atomic relations.                                        *)
(***************************************************************************)
\* The operands of bb, be, eb, ee, with the extreme of the type in place of
\* a missing endpoint.
Operands(x, y) ==
    LET bs == IF x.kind \in {"RangeFrom", "Range", "RangeInclusive"} THEN x.start ELSE MinValue
        es == IF x.kind \in {"RangeFull", "RangeFrom"} THEN MaxValue ELSE x.end
        bt == IF y.kind \in {"RangeFrom", "Range", "RangeInclusive"} THEN y.start ELSE MinValue
        et == IF y.kind \in {"RangeFull", "RangeFrom"} THEN MaxValue ELSE y.end
    IN  <<<<bs, bt>>, <<bs, et>>, <<es, bt>>, <<es, et>>>>

DefinedAt(x, y, i) == Operands(x, y)[i][1] # NaN /\ Operands(x, y)[i][2] # NaN

AllDefined(x, y) == \A i \in 1..4 : DefinedAt(x, y, i)

C18_PredicatesAgreeWithClassifier ==
    (sugar # {NotRun} /\ irel \in Relations /\ IsOrd(si) /\ IsOrd(ti)) =>
        \A r \in Relations : (r \in sugar <=> r = irel)

\* C19: for every pair of NonEmpty intervals (of ordered endpoints) of any
\* combination of the four kinds, exactly one of the 13 predicates is true.
C19_PredicatesDistinctExhaustive ==
    (sugar # {NotRun} /\ IsOrd(si) /\ IsOrd(ti)) => Cardinality(sugar) = 1

(***************************************************************************)
(* C20.  The RangeRelations methods against the classification of the      *)
(* same pair of ranges.                                                    *)
(***************************************************************************)
\* Relation::from_ranges(s, t) of the tests: the table applied to the
\* comparisons of the per-type impl.
Relation_from_ranges_per_type(x, y) == Relation_from(FromRanges_from_ranges(x, y))

\* A range none of whose endpoints is NaN and that the validator accepts.
NonEmptyOrdered(r) ==
    /\ start_bound(r).tag = "Bounded" => r.start \in Ordered
    /\ end_bound(r).tag = "Bounded" => r.end \in Ordered
    /\ validate_interval(r) = "Ok"

\* The same endpoint values written with `..=`.
AsInclusive(r) ==
    CASE r.kind = "RangeTo" -> RangeToInclusive(r.end)
      [] r.kind = "Range" -> RangeInclusive(r.start, r.end)
      [] OTHER -> r

\* C20: for every pair of non-empty ranges of the same bound style, a
\* RangeRelations method returns true iff Relation::from_ranges(s, t) is the
\* relation it names, and the methods of Range / RangeTo return what those
\* of RangeInclusive / RangeToInclusive return for the same endpoint values.
C20_RangeSugarAgrees ==
    (rsugar # {NotRun} /\ NonEmptyOrdered(s) /\ NonEmptyOrdered(t)) =>
        /\ rsugar = {Relation_from_ranges_per_type(s, t)}
        /\ d = "Discrete" =>
               rsugar = RangeRelations_true(AsInclusive(s), AsInclusive(t))


(***************************************************************************)
(* C21.  The order on Relation against the orderings of the starts and of  *)
(* the ends.                                                               *)
(***************************************************************************)
\* What the classifier makes of every pair of non-empty ranges: bb, ee and
\* the relation returned.
Classified ==
    UNION {{[bb |-> AtomicRelations_from_ranges(x, y).bb,
             ee |-> AtomicRelations_from_ranges(x, y).ee,
             rel |-> Relation_from_ranges(x, y)]
            : <<x, y>> \in {p \in RangesOf(D) \X RangesOf(D) :
                               NonEmptyRange(p[1]) /\ NonEmptyRange(p[2])}}
           : D \in Discreteness}

\* C21: for any two pairs of non-empty ranges, if (bb, ee) of the first is
\* lexicographically smaller than (bb, ee) of the second, the relation of
\* the first is smaller than the relation of the second in the order on
\* Relation.  (Ordering is ranked Less < Equal < Greater.)
C21_OrderFollowsStartsThenEnds ==
    LET OrderingRank(o) ==
            CASE o = "Less" -> 0 [] o = "Equal" -> 1 [] o = "Greater" -> 2
        LexLess(b1, e1, b2, e2) ==
            \/ OrderingRank(b1) < OrderingRank(b2)
            \/ OrderingRank(b1) = OrderingRank(b2) /\ OrderingRank(e1) < OrderingRank(e2)
    IN  (rel \in Relations /\ NonEmptyRange(s) /\ NonEmptyRange(t)) =>
            \A c \in Classified :
                LexLess(atomics.bb, atomics.ee, c.bb, c.ee) =>
                    Relation_cmp(rel, c.rel) = "Less"


(***************************************************************************)
(* C22.  RangeBoundsExt::overlaps.                                         *)
(***************************************************************************)
\* C22: for every pair of non-empty ranges, RangeBoundsExt::overlaps(s, t)
\* is true iff start(s) < start(t) < end(s) < end(t), and it is never true
\* together with contains, is_contained_by, starts or finishes.  (The
\* condition is BB Less, EB Greater, EE Less.)
C22_OverlapsIsStrict ==
    LET OverlapsCondition(x, y) ==
            /\ StartBound_partial_cmp_StartBound(start_bound(x), start_bound(y)) = "Less"
            /\ EndBound_partial_cmp_StartBound(end_bound(x), start_bound(y)) = "Greater"
            /\ EndBound_partial_cmp_EndBound(end_bound(x), end_bound(y)) = "Less"
    IN  (esugar # {NotRun} /\ NonEmptyRange(s) /\ NonEmptyRange(t)) =>
            /\ "Overlaps" \in esugar <=> OverlapsCondition(s, t)
            /\ "Overlaps" \in esugar =>
                   esugar \cap {"Contains", "IsContainedBy", "Starts", "Finishes"} = {}


(***************************************************************************)
(* C23.  The RangeRelations methods on an empty range.                     *)
(***************************************************************************)
\* C23: every RangeRelations method, default or defined by an impl,
\* validates both ranges and fails when one is empty: called on a pair
\* with an empty range, no method returns true or false.
C23_PredicatesValidate ==
    (rsugar # {NotRun}
        /\ (validate_interval(s) # "Ok" \/ validate_interval(t) # "Ok")) =>
        rsugar = {Panic}

(***************************************************************************)
(* C28.  PartialEq and PartialOrd of EndBound.                             *)
(***************************************************************************)
\* C28: for all end bounds a, b, a == b iff a.partial_cmp(b) is
\* Some(Equal); and likewise for an end bound against a start bound.
C28_EqConsistentWithOrd ==
    esugar # {NotRun} =>
        /\ EndBound_eq_EndBound(end_bound(s), end_bound(t))
               <=> EndBound_partial_cmp_EndBound(end_bound(s), end_bound(t)) = "Equal"
        /\ EndBound_eq_StartBound(end_bound(s), start_bound(t))
               <=> EndBound_partial_cmp_StartBound(end_bound(s), start_bound(t)) = "Equal"

(***************************************************************************)
(* C30.  The validator on endpoints without an order.                      *)
(***************************************************************************)
\* C30: validate_interval on a Range or RangeInclusive with an incomparable
\* start or end does not return Ok(()).
C30_IncomparableRejected ==
    (vs # NotRun /\ s.kind \in {"Range", "RangeInclusive"} /\ (s.start = NaN \/ s.end = NaN)) =>
        vs # "Ok"


(***************************************************************************)
(* C24.  Sentinels against comparator roles.                               *)
(***************************************************************************)
\* Bb, Be, Eb and Ee on the bounds of two ranges.
RoleAtomics(x, y) ==
    SomeAtomics(Bb_from_bounds(start_bound(x), start_bound(y)),
                Be_from_bounds(start_bound(x), end_bound(y)),
                Eb_from_bounds(end_bound(x), start_bound(y)),
                Ee_from_bounds(end_bound(x), end_bound(y)))

\* C24: for every pair of non-empty ranges whose bounded endpoints are all
\* strictly between the minimum and the maximum, the atomic relations
\* computed with sentinels are those of the comparators Bb, Be, Eb, Ee, and
\* so is the relation: all four of the per-type impls, and the eb and ee
\* that the comparisons of EndBound give.
C24_SentinelsAgreeWithRoles ==
    LET AwayFromExtremes(r) ==
            /\ start_bound(r).tag = "Bounded" =>
                   r.start \in (MinValue + 1)..(MaxValue - 1)
            /\ end_bound(r).tag = "Bounded" =>
                   r.end \in (MinValue + 1)..(MaxValue - 1)
    IN  (/\ NonEmptyRange(s) /\ NonEmptyRange(t)
         /\ AwayFromExtremes(s) /\ AwayFromExtremes(t)) =>
            /\ atomicsA.tag # NotRun => atomicsA = RoleAtomics(s, t)
            /\ atomicsA.tag = "Some" =>
                   Relation_from(atomicsA) = Relation_from(RoleAtomics(s, t))
            /\ atomics.tag = "Some" =>
                   /\ atomics.eb = RoleAtomics(s, t).eb
                   /\ atomics.ee = RoleAtomics(s, t).ee

\* C24 witness: ..4 against 5.., through the per-type impl.
C24_Witness ==
    /\ s = RangeTo(4)
    /\ t = RangeFrom(5)
    /\ atomicsA = SomeAtomics("Less", "Less", "Less", "Less")


(***************************************************************************)
(* C25.  The table over every tuple.                                       *)
(***************************************************************************)
\* C25: for every (bb, be, eb, ee) in {Less, Equal, Greater}^4, whether a
\* pair of intervals can produce it or not, Relation::from returns one of
\* the 13 relations: no tuple is left unmatched.
C25_TableTotal ==
    trel # NotRun => trel \in Relations

\* C25 witness: a tuple that no pair of intervals produces (s ends before
\* t starts, yet starts after t starts and after t ends).
C25_Witness ==
    /\ tup = SomeAtomics("Greater", "Greater", "Less", "Greater")
    /\ trel = "Precedes"


(***************************************************************************)
(* C26.  The converse against the order.                                   *)
(***************************************************************************)
\* C26: for all relations a, b, a < b iff as_converse(b) < as_converse(a);
\* the converse of the relation at position p of the order is at position
\* 12 - p, and Equals, at position 6, is its own converse.
C26_ConverseReversesOrder ==
    (ord # NotRun /\ conv1 # NotRun) =>
        /\ ord = "Less" <=> Relation_cmp(as_converse(r2), conv1) = "Less"
        /\ as_u8(conv1) = 12 - as_u8(r1)
        /\ as_u8(r1) = 6 <=> r1 = "Equals"

\* C26 witness: Overlaps < Finishes, and IsFinishedBy < IsOverlappedBy.
C26_Witness ==
    /\ r1 = "Overlaps"
    /\ r2 = "Finishes"
    /\ ord = "Less"
    /\ conv1 = "IsOverlappedBy"


(***************************************************************************)
(* C27.  The discreteness marker.                                          *)
(***************************************************************************)
\* The range of the other domain with the same start and end values:
\* a..b for a..=b and back, ..b for ..=b and back.
InOtherDomain(r) ==
    CASE r.kind = "Range" -> RangeInclusive(r.start, r.end)
      [] r.kind = "RangeInclusive" -> Range(r.start, r.end)
      [] r.kind = "RangeTo" -> RangeToInclusive(r.end)
      [] r.kind = "RangeToInclusive" -> RangeTo(r.end)
      [] OTHER -> r

C29_EqualsIffSameBounds ==
    (irel # NotRun /\ IsOrd(si) /\ IsOrd(ti)) =>
        /\ irel \in Relations
        /\ irel = "Equals" <=>
               /\ Interval_start_bound(si) = Interval_start_bound(ti)
               /\ Interval_end_bound(si) = Interval_end_bound(ti)
        /\ Bb_from_bounds(Interval_start_bound(si), Interval_start_bound(ti)) = "Equal"
            <=> Interval_start_bound(si) = Interval_start_bound(ti)
        /\ Ee_from_bounds(Interval_end_bound(si), Interval_end_bound(ti)) = "Equal"
            <=> Interval_end_bound(si) = Interval_end_bound(ti)

\* C29 witness: 3.. classified against itself.
C29_Witness ==
    /\ si = IntervalFrom(3)
    /\ ti = IntervalFrom(3)
    /\ irel = "Equals"

====
